---- MODULE Spec2Model ----
(***************************************************************************)
(* Model of src/components/ui/AdvancedImage.tsx: the AdvancedImage React   *)
(* component.  Strings are sequences of one-character strings so that      *)
(* startsWith, the extension regex and the template literals are computed. *)
(***************************************************************************)
EXTENDS Integers, Sequences, FiniteSets, TLC

\* ------------------------------------------------------------------ bounds
\* performance.now() is advanced by Tick up to this value
MaxTime == 2

\* ------------------------------------------------------------------ strings
UpperChars == <<"A","B","C","D","E","F","G","H","I","J","K","L","M",
                "N","O","P","Q","R","S","T","U","V","W","X","Y","Z">>
LowerChars == <<"a","b","c","d","e","f","g","h","i","j","k","l","m",
                "n","o","p","q","r","s","t","u","v","w","x","y","z">>

\* the /i flag of the extension regex: compare characters ignoring case
ToLowerChar(c) ==
  IF \E i \in 1..26 : UpperChars[i] = c
  THEN LowerChars[CHOOSE i \in 1..26 : UpperChars[i] = c]
  ELSE c

ToLower(s) == [i \in 1..Len(s) |-> ToLowerChar(s[i])]

\* variant of StartsWith that ignores case
StartsWith_IgnoreCase(s, p) ==
  Len(s) >= Len(p) /\ ToLower(SubSeq(s, 1, Len(p))) = ToLower(p)

\* String.prototype.startsWith
StartsWith(s, p) == Len(s) >= Len(p) /\ SubSeq(s, 1, Len(p)) = p

\* the "$" anchor of the extension regex, under the /i flag
EndsWithCI(s, e) ==
  Len(s) >= Len(e) /\ ToLower(SubSeq(s, Len(s) - Len(e) + 1, Len(s))) = e

CollectionPrefix == <<"/","C","o","l","l","e","c","t","i","o","n","/">>
ExtJpg  == <<".","j","p","g">>
ExtJpeg == <<".","j","p","e","g">>
ExtPng  == <<".","p","n","g">>

\* variant of StripExtension without the /i flag
StripExtension_CaseSensitive(s) ==
  IF \E e \in {ExtJpg, ExtJpeg, ExtPng} :
       Len(s) >= Len(e) /\ SubSeq(s, Len(s) - Len(e) + 1, Len(s)) = e
  THEN LET e == CHOOSE e \in {ExtJpg, ExtJpeg, ExtPng} :
                  Len(s) >= Len(e) /\ SubSeq(s, Len(s) - Len(e) + 1, Len(s)) = e
       IN SubSeq(s, 1, Len(s) - Len(e))
  ELSE s

\* variant of StripExtension that removes whatever follows the last dot
StripExtension_AnyExtension(s) ==
  LET dots == {i \in 1..Len(s) : s[i] = "."}
  IN IF dots = {} THEN s
     ELSE SubSeq(s, 1, (CHOOSE i \in dots : \A j \in dots : j <= i) - 1)

\* baseSrc.replace(/\.(jpg|jpeg|png)$/i, '')
StripExtension(s) ==
  IF EndsWithCI(s, ExtJpg) THEN SubSeq(s, 1, Len(s) - Len(ExtJpg))
  ELSE IF EndsWithCI(s, ExtJpeg) THEN SubSeq(s, 1, Len(s) - Len(ExtJpeg))
  ELSE IF EndsWithCI(s, ExtPng) THEN SubSeq(s, 1, Len(s) - Len(ExtPng))
  ELSE s

SufAvif == <<".","a","v","i","f">>
SufWebp == <<".","w","e","b","p">>
SufJpg  == <<".","j","p","g">>
TagXs == <<"-","x","s">>
TagSm == <<"-","s","m">>
TagMd == <<"-","m","d">>
TagLg == <<"-","l","g">>
TagXl == <<"-","x","l">>

\* one format's breakpoint mapping; original is given by the caller
Variants(basePath, suf, original) ==
  [kind |-> "object",
   xs |-> basePath \o TagXs \o suf,
   sm |-> basePath \o TagSm \o suf,
   md |-> basePath \o TagMd \o suf,
   lg |-> basePath \o TagLg \o suf,
   xl |-> basePath \o TagXl \o suf,
   original |-> original]

\* a format source that is a plain string (typeof x === 'string')
Single(url) == [kind |-> "string", value |-> url]

\* variant of generateSources whose jpeg original is named like the others
generateSources_JpegOriginalRenamed(baseSrc) ==
  IF ~StartsWith(baseSrc, CollectionPrefix)
  THEN [avif |-> Single(baseSrc), webp |-> Single(baseSrc), jpeg |-> Single(baseSrc)]
  ELSE LET basePath == StripExtension(baseSrc)
       IN [avif |-> Variants(basePath, SufAvif, basePath \o SufAvif),
           webp |-> Variants(basePath, SufWebp, basePath \o SufWebp),
           jpeg |-> Variants(basePath, SufJpg, basePath \o SufJpg)]

generateSources(baseSrc) ==
  IF ~StartsWith(baseSrc, CollectionPrefix)
  THEN [avif |-> Single(baseSrc), webp |-> Single(baseSrc), jpeg |-> Single(baseSrc)]
  ELSE LET basePath == StripExtension(baseSrc)
       IN [avif |-> Variants(basePath, SufAvif, basePath \o SufAvif),
           webp |-> Variants(basePath, SufWebp, basePath \o SufWebp),
           jpeg |-> Variants(basePath, SufJpg, baseSrc)]

W300  == <<" ","3","0","0","w">>
W400  == <<" ","4","0","0","w">>
W600  == <<" ","6","0","0","w">>
W800  == <<" ","8","0","0","w">>
W1200 == <<" ","1","2","0","0","w">>
W1600 == <<" ","1","6","0","0","w">>
CommaSpace == <<",", " ">>

generateSrcSet(formatSources) ==
  IF formatSources.kind = "string" THEN formatSources.value
  ELSE (formatSources.xs \o W300) \o CommaSpace \o
       (formatSources.sm \o W400) \o CommaSpace \o
       (formatSources.md \o W600) \o CommaSpace \o
       (formatSources.lg \o W800) \o CommaSpace \o
       (formatSources.xl \o W1200) \o CommaSpace \o
       (formatSources.original \o W1600)

\* ------------------------------------------------------------------ inputs
\* values of the src prop: two under /Collection/, one foreign
SrcA == CollectionPrefix \o <<"a",".","j","p","g">>
SrcB == CollectionPrefix \o <<"b",".","P","N","G">>
SrcC == <<"/","i","m","g","/","c",".","j","p","g">>
Srcs == {SrcA, SrcB, SrcC}

\* an optional prop that was not passed
Undefined == <<"undefined">>
BlurData == <<"d","a","t","a",":","x">>
BlurValues == {Undefined, <<>>, BlurData}

\* JavaScript truthiness of an optional string
Truthy(s) == s # Undefined /\ s # <<>>

\* AdvancedImageProps; onLoad/onError record whether a callback was passed
\* the values each prop ranges over
PropValues ==
  [src |-> Srcs, loading |-> {"lazy", "eager"}, priority |-> {"high", "low"},
   placeholder |-> BOOLEAN, blurDataURL |-> BlurValues,
   onLoad |-> BOOLEAN, onError |-> BOOLEAN]

\* loading = 'lazy' and priority = 'low': the defaults of the parameter list
DefaultPriority(p) == p.loading = "lazy" /\ p.priority = "low"

\* placeholder = true and no blurDataURL: the defaults of the parameter list
DefaultPlaceholder(p) == p.placeholder /\ p.blurDataURL = Undefined

\* neither callback was passed
NoCallbacks(p) == ~p.onLoad /\ ~p.onError

\* The props the component is rendered with.  src takes every value; of the
\* loading/priority pair (read by the preload effect), the placeholder pair
\* (read by the returned tree) and the callback pair (read by the handlers),
\* at most one differs from its default in the same render.
PropsSet ==
  {p \in [src : PropValues.src, loading : PropValues.loading,
          priority : PropValues.priority, placeholder : PropValues.placeholder,
          blurDataURL : PropValues.blurDataURL, onLoad : PropValues.onLoad,
          onError : PropValues.onError] :
     \/ DefaultPriority(p) /\ DefaultPlaceholder(p)
     \/ DefaultPriority(p) /\ NoCallbacks(p)
     \/ DefaultPlaceholder(p) /\ NoCallbacks(p)}

\* process.env.NODE_ENV
NodeEnvs == {"development", "production"}

\* ------------------------------------------------------------------ state
VARIABLES
  mounted,        \* the component instance is in the tree
  props,          \* the props of the committed render
  isLoaded,       \* useState(false)
  hasError,       \* useState(false)
  loadStartTime,  \* useState(0)
  queued,         \* the three cells with the setter calls React has not rendered
  head,           \* preload links in document.head, in insertion order
  cleanup,        \* the link held by the preload effect's cleanup, or NoLink
  pendingTiming,  \* the [src] effect is scheduled and has not run
  pendingPreload, \* the preload effect (or its cleanup) is scheduled
  now,            \* performance.now()
  nodeEnv,        \* process.env.NODE_ENV
  emitted,        \* callback calls and console output of the last handler
  lastOp,         \* the last operation that acted
  signal,         \* which fetch the event handled last came from
  fn              \* a direct call of generateSources / generateSrcSet

vars == <<mounted, props, isLoaded, hasError, loadStartTime, queued, head,
          cleanup, pendingTiming, pendingPreload, now, nodeEnv, emitted, lastOp,
          signal, fn>>

\* no direct call is under way
FnOff == [pc |-> "off"]

NoLink == [id |-> -1, href |-> <<>>]

\* ------------------------------------------------------------------ preload effect
\* variant of preloadHref that takes the unsuffixed AVIF file
preloadHref_Original(sources) ==
  IF sources.avif.kind = "string" THEN sources.avif.value ELSE sources.avif.original

\* link.href = typeof sources.avif === 'string' ? sources.avif : sources.avif.md
preloadHref(sources) ==
  IF sources.avif.kind = "string" THEN sources.avif.value ELSE sources.avif.md

\* document.head.contains(link)
headContains(h, link) == \E i \in 1..Len(h) : h[i] = link

RemoveLink(h, link) == SelectSeq(h, LAMBDA l : l # link)

\* variant of runCleanup that leaves the link in the head
runCleanup_NoRemove(h, link) == h

\* the cleanup returned by the preload effect
runCleanup(h, link) ==
  IF link # NoLink /\ headContains(h, link) THEN RemoveLink(h, link) ELSE h

\* document.createElement('link'): an element distinct from those in the head
newLink(h, href) ==
  [id |-> CHOOSE n \in 0..Len(h) : \A i \in 1..Len(h) : h[i].id # n,
   href |-> href]

\* body of the preload effect: the head and the cleanup it leaves
preloadEffect(h, p) ==
  IF p.loading = "eager" /\ p.priority = "high"
  THEN LET link == newLink(h, preloadHref(generateSources(p.src)))
       IN [head |-> Append(h, link), cleanup |-> link]
  ELSE [head |-> h, cleanup |-> NoLink]

\* the three useState cells of the committed render, which the closures of
\* that render (handleLoad, handleError, the effects) read
HookState ==
  [isLoaded |-> isLoaded, hasError |-> hasError, loadStartTime |-> loadStartTime]

\* the cells of a first render: useState(false), useState(false), useState(0)
InitialState == [isLoaded |-> FALSE, hasError |-> FALSE, loadStartTime |-> 0]

\* body of the [src] effect: setLoadStartTime(performance.now())
timingEffect(s, t) == [s EXCEPT !.loadStartTime = t]

\* The passive effects scheduled by the last commit, run in React's order:
\* cleanups of the effects that re-run, then the effect bodies in source order.
\* An unmounted component only has its cleanup run.  s holds the setter calls
\* not yet rendered; the [src] effect adds its own to them.
flushEffects(s) ==
  LET h1 == IF pendingPreload THEN runCleanup(head, cleanup) ELSE head
      c1 == IF pendingPreload THEN NoLink ELSE cleanup
      pe == IF pendingPreload /\ mounted
            THEN preloadEffect(h1, props)
            ELSE [head |-> h1, cleanup |-> c1]
  IN [head |-> pe.head, cleanup |-> pe.cleanup,
      state |-> IF pendingTiming /\ mounted THEN timingEffect(s, now) ELSE s]

\* ------------------------------------------------------------------ handlers
\* variant of setLoaded that also restarts the timer
setLoaded_RestartsTimer(s) == [s EXCEPT !.isLoaded = TRUE, !.loadStartTime = 0]

\* variant of setLoaded that leaves the state alone
setLoaded_Forgotten(s) == s

\* setIsLoaded(true)
setLoaded(s) == [s EXCEPT !.isLoaded = TRUE]

\* variant of logsLoad that prints in every run mode
logsLoad_Always(env) == TRUE

\* process.env.NODE_ENV === 'development'
logsLoad(env) == env = "development"

\* handleLoad of the render with hook state s, called at time t while the
\* setter calls q wait to be rendered: the calls that wait afterwards and, in
\* order, what it calls and prints
handleLoad(p, s, q, t, env) ==
  LET loadTime == t - s.loadStartTime
  IN [state |-> setLoaded(q),
      emitted |->
        (IF p.onLoad THEN <<[kind |-> "onLoad"]>> ELSE <<>>) \o
        (IF logsLoad(env)
         THEN <<[kind |-> "log", loadTime |-> loadTime, src |-> p.src]>>
         ELSE <<>>)]

\* variant of setError that also starts the load over
setError_Retry(s) == [s EXCEPT !.hasError = TRUE, !.isLoaded = FALSE]

\* setHasError(true)
setError(s) == [s EXCEPT !.hasError = TRUE]

\* variant of errorOutput that warns only when no callback takes the failure
errorOutput_WarnIfUnhandled(p) ==
  IF p.onError THEN <<[kind |-> "onError"]>>
  ELSE <<[kind |-> "warn", src |-> p.src]>>

\* onError?.(); console.warn(..., src)
errorOutput(p) ==
  (IF p.onError THEN <<[kind |-> "onError"]>> ELSE <<>>) \o
  <<[kind |-> "warn", src |-> p.src]>>

\* handleError, called while the setter calls q wait to be rendered: the calls
\* that wait afterwards and, in order, what it calls and prints
handleError(p, q) ==
  [state |-> setError(q), emitted |-> errorOutput(p)]

\* ------------------------------------------------------------------ render
\* variant of showsError in which a loaded image is never replaced
showsError_UnlessLoaded(loaded, err) == err /\ ~loaded

\* if (hasError) return the error box
showsError(loaded, err) == err

\* variant of showsOverlay that ignores the placeholder prop
showsOverlay_Always(p, loaded) == ~loaded

\* placeholder && !isLoaded
showsOverlay(p, loaded) == p.placeholder /\ ~loaded

\* the tree returned by the component function
Render(p, loaded, err) ==
  IF showsError(loaded, err)
  THEN [root |-> "error", text |-> "Failed to load", overlay |-> "none",
        overlayOpacity0 |-> FALSE, picture |-> FALSE, imgOpacity |-> -1,
        imgSrc |-> <<>>, imgSrcSet |-> <<>>, avifSrcSet |-> <<>>,
        webpSrcSet |-> <<>>]
  ELSE LET sources == generateSources(p.src)
           shown == showsOverlay(p, loaded)
       IN [root |-> "content", text |-> "",
           overlay |-> IF ~shown THEN "none"
                       ELSE IF Truthy(p.blurDataURL) THEN "blur" ELSE "pulse",
           overlayOpacity0 |-> shown /\ Truthy(p.blurDataURL) /\ loaded,
           picture |-> TRUE,
           imgOpacity |-> IF loaded THEN 100 ELSE 0,
           imgSrc |-> IF sources.jpeg.kind = "string"
                      THEN sources.jpeg.value ELSE sources.jpeg.md,
           imgSrcSet |-> generateSrcSet(sources.jpeg),
           avifSrcSet |-> generateSrcSet(sources.avif),
           webpSrcSet |-> generateSrcSet(sources.webp)]

\* what is on screen: the committed render of a mounted component
View == Render(props, isLoaded, hasError)

\* ------------------------------------------------------------------ actions
Init ==
  /\ mounted = FALSE
  /\ props \in PropsSet
  /\ isLoaded = FALSE
  /\ hasError = FALSE
  /\ loadStartTime = 0
  /\ queued = InitialState
  /\ head = <<>>
  /\ cleanup = NoLink
  /\ pendingTiming = FALSE
  /\ pendingPreload = FALSE
  /\ now = 1
  /\ nodeEnv \in NodeEnvs
  /\ emitted = <<>>
  /\ lastOp = "init"
  /\ signal = "none"
  /\ fn = FnOff

\* first render of a new instance with the props of Init or of the last render
Mount ==
  /\ ~mounted
  /\ LET f == flushEffects(queued)
     IN /\ head' = f.head
        /\ cleanup' = f.cleanup
  /\ mounted' = TRUE
  /\ isLoaded' = InitialState.isLoaded
  /\ hasError' = InitialState.hasError
  /\ loadStartTime' = InitialState.loadStartTime
  /\ queued' = InitialState
  /\ pendingTiming' = TRUE
  /\ pendingPreload' = TRUE
  /\ emitted' = <<>>
  /\ lastOp' = "mount"
  /\ signal' = "none"
  /\ UNCHANGED <<props, now, nodeEnv, fn>>

\* The priority of a render.  The setter calls of the component are made in
\* load and error handlers and in an effect and wait in the default lane; the
\* parent can render in that lane or in one of higher priority.
Lanes == {"default", "sync"}

\* The component function runs with props p in a render of the given lane.
\* React first runs the effects still scheduled.  A render of the default lane
\* takes every setter call made so far (the one of the [src] effect included);
\* a render of higher priority leaves them waiting and sees the cells of the
\* last render.  The commit schedules the [src] effect when src differs from
\* the last render's, and the preload effect always (its sources dependency is
\* a new object in every render).  With no call waiting the lanes do not
\* differ, and the render is that of the default lane.
RenderWith(p, lane) ==
  /\ LET f == flushEffects(queued)
         cells == IF lane = "default" THEN f.state ELSE HookState
     IN /\ lane # "default" => f.state # HookState
        /\ head' = f.head
        /\ cleanup' = f.cleanup
        /\ isLoaded' = cells.isLoaded
        /\ hasError' = cells.hasError
        /\ loadStartTime' = cells.loadStartTime
        /\ queued' = f.state
  /\ props' = p
  /\ pendingTiming' = (p.src # props.src)
  /\ pendingPreload' = TRUE
  /\ emitted' = <<>>
  /\ signal' = "none"
  /\ UNCHANGED <<mounted, now, nodeEnv, fn>>

\* the parent renders the component again with the same props
Rerender(lane) ==
  /\ mounted
  /\ RenderWith(props, lane)
  /\ lastOp' = "rerender"

\* the parent renders the component again with prop k changed to v
SetProp(k, v, lane) ==
  /\ mounted
  /\ v # props[k]
  /\ [props EXCEPT ![k] = v] \in PropsSet
  /\ RenderWith([props EXCEPT ![k] = v], lane)
  /\ lastOp' = IF k = "src" THEN "src" ELSE "rerender"

\* React renders the component because setter calls changed a cell: the
\* setters only queue their update, and the render follows the call at once
\* or in a later task, depending on the root.  No render happens when the
\* calls leave every cell as it is.
RenderQueued ==
  /\ mounted
  /\ queued # HookState
  /\ RenderWith(props, "default")
  /\ lastOp' = "work"

\* the fetches whose completion the img element can report: the one of the
\* current src and, right after a src change (nothing cancels a fetch), the
\* one of the src that was replaced
Signals == {"current", "stale"}

CanSignal(sig) == sig = "stale" => lastOp = "src"

\* variant of accepts that drops the events of a superseded fetch
accepts_CurrentOnly(sig) == sig = "current"

\* onLoad={handleLoad} onError={handleError}: the handlers take no argument
\* and run for every event of the element
accepts(sig) == TRUE

\* nothing ran: no setter is called and nothing is called or printed
NotHandled == [state |-> queued, emitted |-> <<>>]

\* A handler of the committed render ran and returned r: its setter call is
\* queued, nothing is rendered and no effect runs.
AfterHandler(r) ==
  /\ queued' = r.state
  /\ emitted' = r.emitted
  /\ UNCHANGED <<mounted, props, isLoaded, hasError, loadStartTime, head,
                 cleanup, pendingTiming, pendingPreload, now, nodeEnv, fn>>

\* the img element of the committed render fires load for the fetch sig
Load(sig) ==
  /\ mounted
  /\ ~hasError
  /\ CanSignal(sig)
  /\ AfterHandler(IF accepts(sig)
                  THEN handleLoad(props, HookState, queued, now, nodeEnv)
                  ELSE NotHandled)
  /\ lastOp' = "load"
  /\ signal' = sig

\* the img element of the committed render fires error for the fetch sig
Error(sig) ==
  /\ mounted
  /\ ~hasError
  /\ CanSignal(sig)
  /\ AfterHandler(IF accepts(sig)
                  THEN handleError(props, queued)
                  ELSE NotHandled)
  /\ lastOp' = "error"
  /\ signal' = sig

\* React runs the scheduled passive effects: the preload effect changes the
\* head, the [src] effect queues its setLoadStartTime call
FlushEffects ==
  /\ pendingTiming \/ pendingPreload
  /\ LET f == flushEffects(queued)
     IN /\ head' = f.head
        /\ cleanup' = f.cleanup
        /\ queued' = f.state
  /\ pendingTiming' = FALSE
  /\ pendingPreload' = FALSE
  /\ emitted' = <<>>
  /\ lastOp' = "effects"
  /\ signal' = "none"
  /\ UNCHANGED <<mounted, props, isLoaded, hasError, loadStartTime, now,
                 nodeEnv, fn>>

\* the instance leaves the tree; its state and the setter calls not yet
\* rendered are dropped, its cleanup is scheduled
Unmount ==
  /\ mounted
  /\ LET f == flushEffects(queued)
     IN /\ head' = f.head
        /\ cleanup' = f.cleanup
        /\ pendingPreload' = (f.cleanup # NoLink)
  /\ mounted' = FALSE
  /\ isLoaded' = InitialState.isLoaded
  /\ hasError' = InitialState.hasError
  /\ loadStartTime' = InitialState.loadStartTime
  /\ queued' = InitialState
  /\ pendingTiming' = FALSE
  /\ emitted' = <<>>
  /\ lastOp' = "unmount"
  /\ signal' = "none"
  /\ UNCHANGED <<props, now, nodeEnv, fn>>

\* time passes
Tick ==
  /\ now < MaxTime
  /\ now' = now + 1
  /\ UNCHANGED <<mounted, props, isLoaded, hasError, loadStartTime, queued,
                 head, cleanup, pendingTiming, pendingPreload, nodeEnv,
                 emitted, lastOp, signal, fn>>

Next ==
  \/ Mount
  \/ \E lane \in Lanes : Rerender(lane)
  \/ \E k \in DOMAIN PropValues : \E v \in PropValues[k] :
       \E lane \in Lanes : SetProp(k, v, lane)
  \/ RenderQueued
  \/ \E sig \in Signals : Load(sig)
  \/ \E sig \in Signals : Error(sig)
  \/ FlushEffects
  \/ Unmount
  \/ Tick

Spec == Init /\ [][Next]_vars

\* ------------------------------------------------------------------ direct calls
\* longest stem of a generated base URL
MaxStem == 2

\* characters of the stems: a letter, the dot and the two characters of the
\* list separator of generateSrcSet
StemChars == {"a", ".", ",", " "}

Stems == UNION {[1..n -> StemChars] : n \in 0..MaxStem}

\* what precedes the stem: the asset directory, and strings that only look
\* like it
FnPrefixes ==
  {CollectionPrefix,
   <<"/","c","o","l","l","e","c","t","i","o","n","/">>,
   <<"x">> \o CollectionPrefix,
   <<"/","C","o","l","l","e","c","t","i","o","n">>,
   <<>>}

\* what follows the stem: raster extensions in several cases, and endings
\* the extension regex does not match
FnEndings ==
  {<<>>,
   <<".","j","p","g">>, <<".","J","P","G">>, <<".","J","p","g">>,
   <<".","j","p","e","g">>, <<".","J","p","E","g">>,
   <<".","p","n","g">>, <<".","P","N","G">>,
   <<".","g","i","f">>, <<".","j","p","g","x">>, <<"j","p","g">>,
   <<".","j","p","g",".","p","n","g">>, <<".","j","p","g","/">>}

SrcPhoto == CollectionPrefix \o <<"p","h","o","t","o",".","j","p","g">>

\* the base URLs generateSources is called with
FnInputs ==
  {pre \o stem \o ending : pre \in FnPrefixes, stem \in Stems, ending \in FnEndings}
    \cup {SrcPhoto}

Formats == {"avif", "webp", "jpeg"}

\* the variables of the component, which a direct call leaves alone
compVars == <<mounted, props, isLoaded, hasError, loadStartTime, queued, head,
              cleanup, pendingTiming, pendingPreload, now, nodeEnv, emitted,
              lastOp, signal>>

\* a call of generateSources(baseSrc) is about to be made; no component is
\* mounted and the props are the defaults of the parameter list
FnInit ==
  /\ fn \in {[pc |-> "arg", baseSrc |-> s] : s \in FnInputs}
  /\ mounted = FALSE
  /\ props = [src |-> SrcA, loading |-> "lazy", priority |-> "low",
              placeholder |-> TRUE, blurDataURL |-> Undefined,
              onLoad |-> FALSE, onError |-> FALSE]
  /\ isLoaded = FALSE
  /\ hasError = FALSE
  /\ loadStartTime = 0
  /\ queued = InitialState
  /\ head = <<>>
  /\ cleanup = NoLink
  /\ pendingTiming = FALSE
  /\ pendingPreload = FALSE
  /\ now = 1
  /\ nodeEnv = "production"
  /\ emitted = <<>>
  /\ lastOp = "init"
  /\ signal = "none"

\* const sources = generateSources(src)
CallGenerateSources ==
  /\ fn.pc = "arg"
  /\ fn' = [pc |-> "sources", baseSrc |-> fn.baseSrc,
            sources |-> generateSources(fn.baseSrc)]
  /\ UNCHANGED compVars

\* generateSrcSet(sources.avif), generateSrcSet(sources.webp),
\* generateSrcSet(sources.jpeg)
CallGenerateSrcSet(f) ==
  /\ fn.pc = "sources"
  /\ fn' = [pc |-> "srcSet", baseSrc |-> fn.baseSrc, sources |-> fn.sources,
            format |-> f, srcSet |-> generateSrcSet(fn.sources[f])]
  /\ UNCHANGED compVars

FnNext ==
  \/ CallGenerateSources
  \/ \E f \in Formats : CallGenerateSrcSet(f)

SpecFn == FnInit /\ [][FnNext]_vars

\* ------------------------------------------------------------------ claims
\* the effects scheduled by the last commit have run
EffectsRan == ~pendingTiming /\ ~pendingPreload

\* number of entries of the given kind the last handler emitted
Count(kind) == Cardinality({i \in DOMAIN emitted : emitted[i].kind = kind})

\* C1 (as stated): a change of the src prop to a different URL leaves
\* isLoaded = FALSE and hasError = FALSE, and the [src] effect it schedules
\* records the current time as loadStartTime.
C1_SrcChangeResets ==
  [][/\ (mounted /\ mounted' /\ props'.src # props.src)
          => (~isLoaded' /\ ~hasError')
     /\ (mounted /\ mounted' /\ pendingTiming /\ ~pendingTiming')
          => queued'.loadStartTime = now]_vars

\* C2: whenever hasError is set the rendered tree is the error box alone: the
\* "Failed to load" text, no picture element and no placeholder overlay,
\* whatever isLoaded, placeholder and blurDataURL are.
C2_ErrorBoxOnly ==
  (mounted /\ hasError) =>
    LET v == View
    IN /\ v.root = "error"
       /\ v.text = "Failed to load"
       /\ ~v.picture
       /\ v.overlay = "none"

\* a success signal and a failure signal were handled and rendered, with a
\* blur placeholder requested: both flags are set and the error box is shown
C2_Witness ==
  /\ mounted /\ hasError /\ isLoaded /\ lastOp = "work"
  /\ props.placeholder /\ props.blurDataURL = BlurData
  /\ View.root = "error"

\* the operations in which the component function runs on a mounted instance
Renders == {"work", "rerender", "src"}

\* the step is a render that left no setter call waiting
RendersAll == lastOp' \in Renders /\ queued' = HookState'

\* C3: right after mount both flags are FALSE and the image is rendered at
\* opacity 0; the render that takes the setter call of a success signal has
\* isLoaded TRUE and, no failure signal having been handled, shows the content
\* tree (picture, image at opacity 1, no overlay); the render that takes the
\* call of a failure signal has hasError TRUE and shows the error box.
C3_LoadStateMachine ==
  [][/\ lastOp' = "mount" =>
          LET v == Render(props', isLoaded', hasError')
          IN ~isLoaded' /\ ~hasError' /\ v.picture /\ v.imgOpacity = 0
     /\ (lastOp = "load" /\ RendersAll) =>
          /\ isLoaded'
          /\ ~hasError' =>
               LET v == Render(props', isLoaded', hasError')
               IN /\ v.root = "content" /\ v.picture
                  /\ v.imgOpacity = 100 /\ v.overlay = "none"
     /\ (lastOp = "error" /\ RendersAll) =>
          /\ hasError'
          /\ Render(props', isLoaded', hasError').root = "error"]_vars

\* a success signal was handled and rendered while a placeholder was requested
C3_Witness ==
  /\ mounted /\ lastOp = "work" /\ props.placeholder
  /\ isLoaded /\ ~hasError /\ View.imgOpacity = 100

\* C4: the head never holds more than one preload hint of the instance, and
\* once the scheduled effects have run it holds exactly one when the instance
\* is mounted with loading = eager and priority = high, and none otherwise
\* (other loading/priority, or unmounted).
C4_OneHintWhenEagerHigh ==
  /\ Len(head) <= 1
  /\ EffectsRan =>
       Len(head) = IF mounted /\ props.loading = "eager" /\ props.priority = "high"
                   THEN 1 ELSE 0

\* the instance was rendered again after its hint was in place, the effects
\* ran, and one hint is in the head
C4_Witness ==
  /\ mounted /\ EffectsRan /\ lastOp = "effects"
  /\ isLoaded /\ loadStartTime > 0
  /\ props.loading = "eager" /\ props.priority = "high"
  /\ Len(head) = 1

\* C5: a flag that is TRUE stays TRUE over every step that keeps the instance
\* mounted and does not change the src prop, in the committed render and in
\* the setter calls that wait to be rendered.
C5_FlagsSticky ==
  [][(mounted /\ mounted' /\ props'.src = props.src) =>
       /\ (isLoaded => isLoaded')
       /\ (hasError => hasError')
       /\ (queued.isLoaded => queued'.isLoaded)
       /\ (queued.hasError => queued'.hasError)]_vars

\* a failure signal was handled after a success signal: both flags persist
C5_Witness ==
  mounted /\ isLoaded /\ hasError /\ lastOp = "rerender"

\* C6: the placeholder overlay is in the rendered tree exactly when hasError
\* and isLoaded are FALSE and placeholder is TRUE; it is the blurred image
\* when a (non-empty) blurDataURL was passed and the pulsing block otherwise.
C6_OverlayCondition ==
  mounted =>
    LET v == View
    IN /\ (v.overlay # "none") <=> (~hasError /\ ~isLoaded /\ props.placeholder)
       /\ (v.overlay # "none") =>
            v.overlay = IF Truthy(props.blurDataURL) THEN "blur" ELSE "pulse"

\* a mounted instance still loading shows the blurred placeholder
C6_Witness ==
  /\ mounted /\ EffectsRan /\ ~isLoaded /\ ~hasError
  /\ props.placeholder /\ props.blurDataURL = BlurData
  /\ View.overlay = "blur"

\* C7 (as stated): with placeholder = TRUE and no error the overlay is in the
\* rendered tree both before and after isLoaded is set, and after it is set
\* the overlay is merely made invisible.
C7_OverlayKeptInvisible ==
  (mounted /\ props.placeholder /\ ~hasError) =>
    LET v == View
    IN /\ v.overlay # "none"
       /\ isLoaded => v.overlayOpacity0

\* C8: a success signal calls setIsLoaded(true), calls onLoad exactly once
\* when it was passed and not at all otherwise, and prints the elapsed-time
\* line, with the src, exactly when NODE_ENV is development.
C8_LoadHandler ==
  lastOp = "load" =>
    /\ queued.isLoaded
    /\ Count("onLoad") = IF props.onLoad THEN 1 ELSE 0
    /\ Count("log") = IF nodeEnv = "development" THEN 1 ELSE 0
    /\ Count("onError") = 0 /\ Count("warn") = 0
    /\ \A i \in DOMAIN emitted : emitted[i].kind = "log" => emitted[i].src = props.src

\* a success signal was handled in a production run with onLoad passed
C8_Witness ==
  /\ lastOp = "load" /\ nodeEnv = "production" /\ props.onLoad
  /\ queued.isLoaded /\ Count("onLoad") = 1 /\ Count("log") = 0

\* C9: a failure signal calls setHasError(true), calls onError exactly once
\* when it was passed, and prints the warning with the src whatever NODE_ENV
\* is.
C9_ErrorHandler ==
  lastOp = "error" =>
    /\ queued.hasError
    /\ Count("onError") = IF props.onError THEN 1 ELSE 0
    /\ Count("warn") = 1
    /\ Count("onLoad") = 0 /\ Count("log") = 0
    /\ \A i \in DOMAIN emitted : emitted[i].kind = "warn" => emitted[i].src = props.src

\* a failure signal was handled in a production run without onError
C9_Witness ==
  /\ lastOp = "error" /\ nodeEnv = "production" /\ ~props.onError
  /\ queued.hasError /\ Count("warn") = 1 /\ Count("onError") = 0

\* the URL the hint of each src value has to carry
HintA == CollectionPrefix \o <<"a","-","m","d",".","a","v","i","f">>
HintB == CollectionPrefix \o <<"b","-","m","d",".","a","v","i","f">>
ExpectedHint(src) ==
  IF src = SrcA THEN HintA ELSE IF src = SrcB THEN HintB ELSE src

\* C10: once the scheduled effects have run, every preload hint in the head
\* references the current src: its AVIF md variant when the src is under
\* /Collection/, the src itself otherwise; none references another src.
C10_HintReferencesCurrentSrc ==
  (mounted /\ EffectsRan) =>
    \A i \in 1..Len(head) : head[i].href = ExpectedHint(props.src)

\* the preload effect ran for an upper-case .PNG src under /Collection/ and
\* its hint is in the head
C10_Witness ==
  /\ mounted /\ EffectsRan /\ lastOp = "effects"
  /\ props.src = SrcB
  /\ Len(head) = 1 /\ head[1].href = HintB

\* C15 (as stated): when a signal of the current src's fetch is handled, the
\* [src] effect that records the start time of that src has already run and
\* its time is the one the handler reads, so the handler does not read the
\* initial 0 or an earlier src's time.
C15_StartRecordedBeforeSignal ==
  [][(Load("current") \/ Error("current")) =>
       /\ ~pendingTiming
       /\ loadStartTime > 0
       /\ loadStartTime = queued.loadStartTime]_vars

\* C16: a signal of a superseded fetch, delivered after the src prop changed,
\* is handled like any other: a load calls setIsLoaded(true) and onLoad, an
\* error calls setHasError(true) and onError, and what is printed names the
\* current src.
C16_StaleSignalHandled ==
  (mounted /\ signal = "stale") =>
    /\ lastOp = "load" =>
         /\ queued.isLoaded
         /\ Count("onLoad") = IF props.onLoad THEN 1 ELSE 0
         /\ Count("log") = IF nodeEnv = "development" THEN 1 ELSE 0
    /\ lastOp = "error" =>
         /\ queued.hasError
         /\ Count("onError") = IF props.onError THEN 1 ELSE 0
         /\ Count("warn") = 1
    /\ \A i \in DOMAIN emitted :
         emitted[i].kind \in {"log", "warn"} => emitted[i].src = props.src

\* after a src change the load event of the earlier fetch arrived: the new
\* src is about to count as loaded and the caller's onLoad ran
C16_Witness ==
  /\ mounted /\ signal = "stale" /\ lastOp = "load"
  /\ queued.isLoaded /\ ~isLoaded /\ props.onLoad /\ Count("onLoad") = 1

\* C18: handling a load signal leaves hasError alone and handling an error
\* signal leaves isLoaded alone, in the committed render and in the setter
\* calls that wait; neither changes loadStartTime or the preload hints in the
\* head.
C18_HandlerFrame ==
  [][/\ (\E sig \in Signals : Load(sig)) =>
          (hasError' = hasError /\ queued'.hasError = queued.hasError)
     /\ (\E sig \in Signals : Error(sig)) =>
          (isLoaded' = isLoaded /\ queued'.isLoaded = queued.isLoaded)
     /\ (\E sig \in Signals : Load(sig) \/ Error(sig)) =>
          /\ loadStartTime' = loadStartTime
          /\ queued'.loadStartTime = queued.loadStartTime
          /\ head' = head]_vars

\* an error signal was handled on a loaded image that has a preload hint
C18_Witness ==
  /\ mounted /\ lastOp = "error" /\ queued.hasError /\ isLoaded
  /\ loadStartTime > 0 /\ Len(head) = 1

\* ------------------------------------------------------------------ claims on direct calls
\* s starts with the twelve characters of '/Collection/'
UnderCollection(s) ==
  Len(s) >= 12 /\ \A i \in 1..12 : s[i] = CollectionPrefix[i]

\* length of the trailing .jpg/.jpeg/.png of s in any letter case, 0 if none
RasterExtLen(s) ==
  IF \E n \in {4, 5} : Len(s) >= n /\
       ToLower(SubSeq(s, Len(s) - n + 1, Len(s))) \in {ExtJpg, ExtJpeg, ExtPng}
  THEN CHOOSE n \in {4, 5} : Len(s) >= n /\
       ToLower(SubSeq(s, Len(s) - n + 1, Len(s))) \in {ExtJpg, ExtJpeg, ExtPng}
  ELSE 0

\* s without that one trailing extension
ExpectedBase(s) == SubSeq(s, 1, Len(s) - RasterExtLen(s))

Tags == {"xs", "sm", "md", "lg", "xl"}
TagText == [xs |-> <<"x","s">>, sm |-> <<"s","m">>, md |-> <<"m","d">>,
            lg |-> <<"l","g">>, xl |-> <<"x","l">>]
FormatText == [avif |-> <<"a","v","i","f">>, webp |-> <<"w","e","b","p">>,
               jpeg |-> <<"j","p","g">>]

\* base + '-' + tag + '.' + format
VariantName(base, tag, f) ==
  base \o <<"-">> \o TagText[tag] \o <<".">> \o FormatText[f]

\* every width-tagged variant of the three formats, and the avif and webp
\* original, is named after base
BuiltFrom(sources, base) ==
  \A f \in Formats :
    /\ sources[f].kind = "object"
    /\ DOMAIN sources[f] = {"kind", "original"} \cup Tags
    /\ \A tag \in Tags : sources[f][tag] = VariantName(base, tag, f)
    /\ f # "jpeg" => sources[f].original = base \o <<".">> \o FormatText[f]

\* C11: for a base URL that does not start with '/Collection/', each of avif,
\* webp and jpeg is that same URL string.
C11_Passthrough ==
  (fn.pc = "sources" /\ ~UnderCollection(fn.baseSrc)) =>
    \A f \in Formats : fn.sources[f] = [kind |-> "string", value |-> fn.baseSrc]

\* generateSources returned for '/collection/a.jpg', which differs from the
\* asset directory only in case
C11_Witness ==
  /\ fn.pc = "sources"
  /\ fn.baseSrc = <<"/","c","o","l","l","e","c","t","i","o","n","/","a",".","j","p","g">>
  /\ fn.sources.avif.kind = "string"
  /\ fn.sources.jpeg.value = fn.baseSrc

\* C12: for a base URL under '/Collection/' that ends in .jpg, .jpeg or .png
\* in any letter case, the jpeg original is the input itself and every other
\* variant is named after the input without that extension.
C12_JpegOriginalIsInput ==
  (fn.pc = "sources" /\ UnderCollection(fn.baseSrc) /\ RasterExtLen(fn.baseSrc) > 0) =>
    /\ fn.sources.jpeg.original = fn.baseSrc
    /\ BuiltFrom(fn.sources, ExpectedBase(fn.baseSrc))

\* generateSources returned for '/Collection/a.JpEg': the jpeg original keeps
\* the extension the other jpeg variants replace
C12_Witness ==
  /\ fn.pc = "sources"
  /\ fn.baseSrc = CollectionPrefix \o <<"a",".","J","p","E","g">>
  /\ fn.sources.jpeg.original = fn.baseSrc
  /\ fn.sources.jpeg.xl = CollectionPrefix \o <<"a","-","x","l",".","j","p","g">>

\* C13: for a base URL under '/Collection/', one trailing .jpg/.jpeg/.png (in
\* any case) is removed and every variant is base-tag.format, the avif and
\* webp original base.format; '/Collection/photo.jpg' gives the avif md
\* variant '/Collection/photo-md.avif'.
C13_VariantNames ==
  (fn.pc = "sources" /\ UnderCollection(fn.baseSrc)) =>
    /\ BuiltFrom(fn.sources, ExpectedBase(fn.baseSrc))
    /\ fn.baseSrc = SrcPhoto =>
         fn.sources.avif.md =
           CollectionPrefix \o <<"p","h","o","t","o","-","m","d",".","a","v","i","f">>

\* generateSources returned for '/Collection/a.jpg.png': only the .png went
C13_Witness ==
  /\ fn.pc = "sources"
  /\ fn.baseSrc = CollectionPrefix \o <<"a",".","j","p","g",".","p","n","g">>
  /\ fn.sources.webp.md =
       CollectionPrefix \o <<"a",".","j","p","g","-","m","d",".","w","e","b","p">>

\* first position of sep in s, 0 when it does not occur
IndexOf(s, sep) ==
  LET at == {i \in 1..(Len(s) - Len(sep) + 1) : SubSeq(s, i, i + Len(sep) - 1) = sep}
  IN IF at = {} THEN 0 ELSE CHOOSE i \in at : \A j \in at : i <= j

\* the pieces of s between the occurrences of sep, left to right
RECURSIVE Split(_, _)
Split(s, sep) ==
  LET i == IndexOf(s, sep)
  IN IF i = 0 THEN <<s>>
     ELSE <<SubSeq(s, 1, i - 1)>> \o Split(SubSeq(s, i + Len(sep), Len(s)), sep)

\* the six 'url width' entries of a breakpoint mapping, in order
ExpectedEntries(u) ==
  <<u.xs \o <<" ","3","0","0","w">>, u.sm \o <<" ","4","0","0","w">>,
    u.md \o <<" ","6","0","0","w">>, u.lg \o <<" ","8","0","0","w">>,
    u.xl \o <<" ","1","2","0","0","w">>, u.original \o <<" ","1","6","0","0","w">>>>

\* C14 (as stated): a single URL is returned as it is; for a breakpoint
\* mapping the result read as a ', '-separated list has exactly six entries,
\* url and width, in the order xs, sm, md, lg, xl, original.
C14_SixEntries ==
  fn.pc = "srcSet" =>
    LET u == fn.sources[fn.format]
    IN IF u.kind = "string" THEN fn.srcSet = u.value
       ELSE Split(fn.srcSet, <<",", " ">>) = ExpectedEntries(u)

\* C17: for a base URL under '/Collection/' that has no .jpg/.jpeg/.png
\* ending, nothing is removed: the three formats each have the six keys, the
\* suffixes follow the whole input and the jpeg original is the input; and
\* generateSources returns for every base URL.
C17_NoExtensionTotal ==
  /\ fn.pc = "arg" => ENABLED CallGenerateSources
  /\ fn.pc = "sources" => DOMAIN fn.sources = Formats
  /\ (fn.pc = "sources" /\ UnderCollection(fn.baseSrc) /\ RasterExtLen(fn.baseSrc) = 0) =>
       /\ BuiltFrom(fn.sources, fn.baseSrc)
       /\ fn.sources.jpeg.original = fn.baseSrc

\* generateSources returned for '/Collection/a.gif'
C17_Witness ==
  /\ fn.pc = "sources"
  /\ fn.baseSrc = CollectionPrefix \o <<"a",".","g","i","f">>
  /\ fn.sources.avif.xs =
       CollectionPrefix \o <<"a",".","g","i","f","-","x","s",".","a","v","i","f">>
  /\ fn.sources.jpeg.original = fn.baseSrc

====
